---- MODULE Spec2Model ----
(***************************************************************************)
(* Model of plasoscaffolder/lib/engine.py: the ScaffolderEngine.           *)
(*                                                                         *)
(* Strings are sequences of one-character strings, so that the string      *)
(* methods of SetModuleName (replace, lower, title) and os.path.join are   *)
(* computed instead of assumed.  Paths are sequences of path tokens with   *)
(* explicit "/" separators.                                                *)
(*                                                                         *)
(* GenerateFiles is a Python generator.  It is modelled as a coroutine:    *)
(* the variable control says whether the caller or the generator body is   *)
(* running, and pc is the position of the generator body.  The body runs   *)
(* from one yield to the next without the caller being able to act.        *)
(* The caller configures the engine while it holds no generator object     *)
(* (one configure-then-generate cycle after the other); it may drop a      *)
(* generator at any point of a pass.                                       *)
(***************************************************************************)
EXTENDS Integers, Sequences, FiniteSets, TLC

\* ------------------------------------------------------------------ bounds
MaxLen == 2
MaxCopy == 2
MaxGen == 2
MaxPasses == 2

SeqsUpTo(S, n) == UNION {[1..k -> S] : k \in 0..n}

\* ------------------------------------------------------ python str methods
LowerLetters == <<"a", "b", "c", "d", "e", "l", "m", "o", "u", "y">>
UpperLetters == <<"A", "B", "C", "D", "E", "L", "M", "O", "U", "Y">>

IsLowerChar(c) == \E i \in DOMAIN LowerLetters : LowerLetters[i] = c
IsUpperChar(c) == \E i \in DOMAIN UpperLetters : UpperLetters[i] = c
IsCased(c) == IsLowerChar(c) \/ IsUpperChar(c)

ToLowerChar(c) ==
  IF IsUpperChar(c)
  THEN LowerLetters[CHOOSE i \in DOMAIN UpperLetters : UpperLetters[i] = c]
  ELSE c

ToUpperChar(c) ==
  IF IsLowerChar(c)
  THEN UpperLetters[CHOOSE i \in DOMAIN LowerLetters : LowerLetters[i] = c]
  ELSE c

\* str.replace(old, new) for one-character old and new
Replace(s, old, new) ==
  [i \in 1..Len(s) |-> IF s[i] = old THEN new ELSE s[i]]

\* str.replace(old, '')
Remove(s, old) == SelectSeq(s, LAMBDA c : c # old)

\* str.lower()
Lower(s) == [i \in 1..Len(s) |-> ToLowerChar(s[i])]

\* str.title(): a cased character is upper-cased when the character before
\* it is not cased (or there is none), and lower-cased otherwise.
Title(s) ==
  [i \in 1..Len(s) |->
     IF IsCased(s[i])
     THEN IF i > 1 /\ IsCased(s[i - 1]) THEN ToLowerChar(s[i])
                                        ELSE ToUpperChar(s[i])
     ELSE s[i]]

\* line 84: module_name.replace(' ', '_').lower()
FileNamePrefix(raw) == Lower(Replace(raw, " ", "_"))

\* lines 85-86: self._file_name_prefix.replace('_', ' ').title().replace(' ', '')
ModuleNameOfPrefix(prefix) == Remove(Title(Replace(prefix, "_", " ")), " ")

\* -------------------------------------------------------------- os.path
\* posixpath.join(a, b)
Join(a, b) ==
  IF b # <<>> /\ b[1] = "/" THEN b
  ELSE IF a = <<>> \/ a[Len(a)] = "/" THEN a \o b
  ELSE a \o <<"/">> \o b

\* the template files on disk
RegularFiles == {"tpl/a", "tpl/b"}
Directories == {"tpl/d"}
SourcePaths == RegularFiles \cup Directories \cup {"tpl/missing"}

\* the pass without the check of line 64
IsFileUnchecked(source) == TRUE

\* os.path.isfile
IsFile(source) == source \in RegularFiles

\* ---------------------------------------------------------- file handler
\* A destination below a read-only directory cannot be written.
Writable(path) == \A i \in DOMAIN path : path[i] # "ro"

\* file_handler.FileHandler.CopyFile: the written path, or the error
CopyFile(source, destination) ==
  IF Writable(destination) THEN [ok |-> TRUE, path |-> destination]
  ELSE [ok |-> FALSE, path |-> <<>>]

\* file_handler.FileHandler.AddContent: the written path, or the error
AddContent(destination, content) ==
  IF Writable(destination) THEN [ok |-> TRUE, path |-> destination]
  ELSE [ok |-> FALSE, path |-> <<>>]

\* ------------------------------------------------------------ definitions
P1 == <<"/", "p">>
P2 == <<"/", "q", "/">>
P3 == <<"/", "x">>

\* manager.DefinitionManager.GetDefinitionObjects(), in iteration order
GetDefinitionObjects ==
  << [NAME |-> "plaso",    paths |-> {P1}],
     [NAME |-> "turbinia", paths |-> {P1, P2}],
     [NAME |-> "timesketch", paths |-> {P2}] >>

ValidatePath(definition, path) == path \in definition.paths

\* the loop of lines 104-108 without its return: the last match stays
LastValidDefinition(path) ==
  LET matches == {i \in DOMAIN GetDefinitionObjects :
                    ValidatePath(GetDefinitionObjects[i], path)}
  IN IF matches = {} THEN 0
     ELSE CHOOSE i \in matches : \A j \in matches : i >= j

\* lines 104-108: the index of the definition the loop returns at, 0 if the
\* loop runs to its end
FirstValidDefinition(path) ==
  LET matches == {i \in DOMAIN GetDefinitionObjects :
                    ValidatePath(GetDefinitionObjects[i], path)}
  IN IF matches = {} THEN 0
     ELSE CHOOSE i \in matches : \A j \in matches : i <= j

\* ------------------------------------------------------------- inputs
Alphabet == {"a", "A", " ", "_"}
ExampleName ==
  <<"m", "y", " ", "c", "o", "o", "l", " ", "m", "o", "d", "u", "l", "e">>
DigitName == <<"a", "1", "b">>
\* every short name, and two longer ones
ModuleNames == SeqsUpTo(Alphabet, MaxLen) \cup {ExampleName, DigitName}
\* the names used where the pass, not the name, is under study
PassNames == {<<"_">>, <<"a", " ", "A">>}

RootPaths == {<<>>, P1, P2, P3}

NoScaffolder == [none |-> TRUE]
NoValue == [none |-> TRUE]
AttributeNames == {"n"}
AttributeTypes == {"int", "str"}
\* a value is known by its Python type and its text
AttributeValues == {[type |-> "int", text |-> "1"], [type |-> "str", text |-> "s"]}
\* a scaffolder object as handed to SetScaffolder
NewScaffolders == {[ready |-> r, attributes |-> [n \in AttributeNames |-> NoValue]] :
                     r \in BOOLEAN}

\* isinstance(value, value_type)
IsInstance(value, value_type) == value.type = value_type

CopyItems ==
  {[source |-> s, destination |-> d] :
     s \in SourcePaths, d \in {<<"a.py">>}} \cup
  {[source |-> "tpl/b", destination |-> <<"b.py">>],
   [source |-> "tpl/a", destination |-> <<"ro", "/", "a.py">>]}
CopyLists == SeqsUpTo(CopyItems, MaxCopy)
\* one list with a pair of every kind, used where the name is under study
SampleCopyLists ==
  {<< [source |-> "tpl/missing", destination |-> <<"a.py">>],
      [source |-> "tpl/a", destination |-> <<"ro", "/", "a.py">>],
      [source |-> "tpl/b", destination |-> <<"b.py">>] >>}

GenItems ==
  {[path |-> <<"g.py">>, content |-> "c1"],
   [path |-> <<"h.py">>, content |-> "c2"],
   [path |-> <<"ro", "/", "g.py">>, content |-> "c3"]}

\* ------------------------------------------------------------------ state
VARIABLES
  definition,            \* self._definition
  definition_root_path,  \* self._definition_root_path
  file_name_prefix,      \* self._file_name_prefix
  module_name,           \* self._module_name
  scaffolder,            \* self._scaffolder
  raw_name,              \* argument of the most recent SetModuleName call
  lastCall,              \* the most recent engine call and how it ended
  control,               \* who runs: "caller" or "generator"
  pc,                    \* position of the GenerateFiles generator body
  copyList,              \* the list GetFilesToCopy returned to this pass
  copyIndex,             \* next element of copyList to be visited
  genSeen,               \* pairs the scaffolder's generator has produced
  yielded,               \* paths this pass has yielded
  written,               \* file handler calls that succeeded in this pass
  logged,                \* logging.error records of this pass
  scaffolderCalls,       \* calls this pass made on the scaffolder
  raised,                \* the exception the generator ended with
  passes                 \* number of GenerateFiles calls so far

engineVars == <<definition, definition_root_path, file_name_prefix,
                module_name, scaffolder>>
passVars == <<pc, copyList, copyIndex, genSeen, yielded, written, logged,
              scaffolderCalls, raised>>
vars == <<definition, definition_root_path, file_name_prefix, module_name,
          scaffolder, raw_name, lastCall, control, pc, copyList, copyIndex,
          genSeen, yielded, written, logged, scaffolderCalls, raised, passes>>

NoName == <<"<unset>">>

Call(op, arg, result) == [op |-> op, arg |-> arg, result |-> result]

NoPass ==
  /\ pc' = "none"
  /\ copyList' = <<>>
  /\ copyIndex' = 1
  /\ genSeen' = <<>>
  /\ yielded' = <<>>
  /\ written' = <<>>
  /\ logged' = <<>>
  /\ scaffolderCalls' = <<>>
  /\ raised' = "none"

Init ==
  /\ definition = ""
  /\ definition_root_path = <<>>
  /\ file_name_prefix = <<>>
  /\ module_name = <<>>
  /\ scaffolder = NoScaffolder
  /\ raw_name = NoName
  /\ lastCall = Call("__init__", <<>>, "ok")
  /\ control = "caller"
  /\ pc = "none"
  /\ copyList = <<>>
  /\ copyIndex = 1
  /\ genSeen = <<>>
  /\ yielded = <<>>
  /\ written = <<>>
  /\ logged = <<>>
  /\ scaffolderCalls = <<>>
  /\ raised = "none"
  /\ passes = 0

\* the caller holds no generator and is free to configure the engine
Configuring == control = "caller" /\ pc = "none"

\* ------------------------------------------------------- configuration
\* SetModuleName that keeps a module name it already has
SetModuleNameKeepsOld(raw) ==
  /\ Configuring
  /\ file_name_prefix' = FileNamePrefix(raw)
  /\ module_name' = IF module_name # <<>> THEN module_name
                    ELSE ModuleNameOfPrefix(file_name_prefix')
  /\ raw_name' = raw
  /\ lastCall' = Call("SetModuleName", <<>>, "ok")
  /\ UNCHANGED <<definition, definition_root_path, scaffolder, control,
                 passVars, passes>>

SetModuleName(raw) ==
  /\ Configuring
  /\ file_name_prefix' = FileNamePrefix(raw)
  /\ module_name' = ModuleNameOfPrefix(file_name_prefix')
  /\ raw_name' = raw
  /\ lastCall' = Call("SetModuleName", <<>>, "ok")
  /\ UNCHANGED <<definition, definition_root_path, scaffolder, control,
                 passVars, passes>>

SetScaffolder(s) ==
  /\ Configuring
  /\ scaffolder' = s
  /\ lastCall' = Call("SetScaffolder", <<>>, "ok")
  /\ UNCHANGED <<definition, definition_root_path, file_name_prefix,
                 module_name, raw_name, control, passVars, passes>>

\* SetProjectRootPath that stores the path before it looks for a definition
SetProjectRootPathStoresFirst(root_path) ==
  /\ Configuring
  /\ definition_root_path' = root_path
  /\ LET i == FirstValidDefinition(root_path)
     IN IF i # 0
        THEN /\ definition' = GetDefinitionObjects[i].NAME
             /\ lastCall' = Call("SetProjectRootPath", root_path, "ok")
        ELSE /\ lastCall' = Call("SetProjectRootPath", root_path,
                                 "NoValidDefinition")
             /\ UNCHANGED definition
  /\ UNCHANGED <<file_name_prefix, module_name, scaffolder, raw_name,
                 control, passVars, passes>>

SetProjectRootPath(root_path) ==
  /\ Configuring
  /\ LET i == FirstValidDefinition(root_path)
     IN IF i # 0
        THEN /\ definition' = GetDefinitionObjects[i].NAME
             /\ definition_root_path' = root_path
             /\ lastCall' = Call("SetProjectRootPath", root_path, "ok")
        ELSE /\ lastCall' = Call("SetProjectRootPath", root_path,
                                 "NoValidDefinition")
             /\ UNCHANGED <<definition, definition_root_path>>
  /\ UNCHANGED <<file_name_prefix, module_name, scaffolder, raw_name,
                 control, passVars, passes>>

\* scaffolder.SetAttribute(name, value, value_type): the scaffolder after
\* the call and the way the call ended
SetAttribute(s, name, value, value_type) ==
  IF s.attributes[name] # NoValue
  THEN [scaffolder |-> s, result |-> "KeyError"]
  ELSE IF ~IsInstance(value, value_type)
  THEN [scaffolder |-> s, result |-> "ValueError"]
  ELSE [scaffolder |->
          [s EXCEPT !.attributes[name] = [value |-> value, type |-> value_type]],
        result |-> "ok"]

\* StoreScaffolderAttribute that returns quietly when no scaffolder is set
StoreScaffolderAttributeQuiet(name, value, value_type) ==
  /\ Configuring
  /\ IF scaffolder = NoScaffolder
     THEN /\ lastCall' = Call("StoreScaffolderAttribute",
                              <<name, value, value_type>>, "ok")
          /\ UNCHANGED scaffolder
     ELSE LET r == SetAttribute(scaffolder, name, value, value_type)
          IN /\ scaffolder' = r.scaffolder
             /\ lastCall' = Call("StoreScaffolderAttribute",
                                 <<name, value, value_type>>, r.result)
  /\ UNCHANGED <<definition, definition_root_path, file_name_prefix,
                 module_name, raw_name, control, passVars, passes>>

StoreScaffolderAttribute(name, value, value_type) ==
  /\ Configuring
  /\ IF scaffolder = NoScaffolder
     THEN /\ lastCall' = Call("StoreScaffolderAttribute",
                              <<name, value, value_type>>,
                              "ScaffolderNotConfigured")
          /\ UNCHANGED scaffolder
     ELSE LET r == SetAttribute(scaffolder, name, value, value_type)
          IN /\ scaffolder' = r.scaffolder
             /\ lastCall' = Call("StoreScaffolderAttribute",
                                 <<name, value, value_type>>, r.result)
  /\ UNCHANGED <<definition, definition_root_path, file_name_prefix,
                 module_name, raw_name, control, passVars, passes>>

\* ------------------------------------------------------------ readiness
\* the checks of lines 35-43 without the one on the module name
EngineFieldsSetButName ==
  /\ definition_root_path # <<>>
  /\ scaffolder # NoScaffolder

\* the checks of lines 35-43 with the prefix tested in place of the module name
EngineFieldsSetByPrefix ==
  /\ definition_root_path # <<>>
  /\ file_name_prefix # <<>>
  /\ scaffolder # NoScaffolder

\* lines 35-43: the three checks on the engine's own fields
EngineFieldsSet ==
  /\ definition_root_path # <<>>
  /\ module_name # <<>>
  /\ scaffolder # NoScaffolder

\* lines 45-48: scaffolder.RaiseIfNotReady() does not raise
ScaffolderReady == scaffolder.ready

\* ------------------------------------------------------ the caller's side
\* engine.GenerateFiles(): creates the generator object; nothing runs yet
GenerateFilesCall ==
  /\ Configuring
  /\ passes < MaxPasses
  /\ passes' = passes + 1
  /\ pc' = "created"
  /\ lastCall' = Call("GenerateFiles", <<>>, "generator")
  /\ UNCHANGED <<engineVars, raw_name, control, copyList, copyIndex, genSeen,
                 yielded, written, logged, scaffolderCalls, raised>>

\* next(generator): the generator body runs up to its next yield
NextCall ==
  /\ control = "caller"
  /\ pc \in {"created", "copy", "generate"}
  /\ control' = "generator"
  /\ lastCall' = Call("next", <<>>, "running")
  /\ UNCHANGED <<engineVars, raw_name, passVars, passes>>

\* the caller lets go of the generator object, drained or not
Discard ==
  /\ control = "caller"
  /\ pc # "none"
  /\ NoPass
  /\ lastCall' = Call("discard", <<>>, "ok")
  /\ UNCHANGED <<engineVars, raw_name, control, passes>>

\* ---------------------------------------------------- the generator body
Running(position) == control = "generator" /\ pc = position

\* line 59, _RaiseIfNotReady raises
RaiseNotReady ==
  /\ Running("created")
  /\ ~(EngineFieldsSet /\ ScaffolderReady)
  /\ pc' = "raised"
  /\ raised' = "EngineNotConfigured"
  /\ scaffolderCalls' =
       IF EngineFieldsSet THEN <<[call |-> "RaiseIfNotReady", arg |-> <<>>]>>
       ELSE <<>>
  /\ control' = "caller"
  /\ lastCall' = Call("next", <<>>, "EngineNotConfigured")
  /\ UNCHANGED <<engineVars, raw_name, copyList, copyIndex, genSeen, yielded,
                 written, logged, passes>>

\* lines 59-63: ready; SetOutputName, then GetFilesToCopy returns files
StartPass(files) ==
  /\ Running("created")
  /\ EngineFieldsSet /\ ScaffolderReady
  /\ scaffolderCalls' = <<[call |-> "RaiseIfNotReady", arg |-> <<>>],
                          [call |-> "SetOutputName", arg |-> file_name_prefix],
                          [call |-> "GetFilesToCopy", arg |-> <<>>]>>
  /\ copyList' = files
  /\ copyIndex' = 1
  /\ pc' = "copy"
  /\ UNCHANGED <<engineVars, raw_name, lastCall, control, genSeen, yielded,
                 written, logged, raised, passes>>

CopyPending == Running("copy") /\ copyIndex <= Len(copyList)

\* line 64: os.path.isfile(file_source) is false
CopySkip ==
  /\ CopyPending
  /\ ~IsFile(copyList[copyIndex].source)
  /\ copyIndex' = copyIndex + 1
  /\ UNCHANGED <<engineVars, raw_name, lastCall, control, pc, copyList,
                 genSeen, yielded, written, logged, scaffolderCalls, raised,
                 passes>>

\* a copy loop that keeps the written path to itself and goes on
CopyYieldKeepsPath ==
  /\ CopyPending
  /\ IsFile(copyList[copyIndex].source)
  /\ LET file_source == copyList[copyIndex].source
         full_path == Join(definition_root_path, copyList[copyIndex].destination)
         copied == CopyFile(file_source, full_path)
     IN /\ copied.ok
        /\ written' = Append(written,
             [call |-> "CopyFile", source |-> file_source, path |-> full_path])
  /\ copyIndex' = copyIndex + 1
  /\ UNCHANGED <<engineVars, raw_name, lastCall, control, pc, copyList,
                 genSeen, yielded, logged, scaffolderCalls, raised, passes>>

\* lines 65-68: the copy succeeds and its path is yielded
CopyYield ==
  /\ CopyPending
  /\ IsFile(copyList[copyIndex].source)
  /\ LET file_source == copyList[copyIndex].source
         full_path == Join(definition_root_path, copyList[copyIndex].destination)
         copied == CopyFile(file_source, full_path)
     IN /\ copied.ok
        /\ written' = Append(written,
             [call |-> "CopyFile", source |-> file_source, path |-> full_path])
        /\ yielded' = Append(yielded, copied.path)
  /\ copyIndex' = copyIndex + 1
  /\ control' = "caller"
  /\ lastCall' = Call("next", <<>>, "yield")
  /\ UNCHANGED <<engineVars, raw_name, pc, copyList, genSeen, logged,
                 scaffolderCalls, raised, passes>>

\* a copy loop without the try of lines 66-72: the error ends the pass
CopyFailAborts ==
  /\ CopyPending
  /\ IsFile(copyList[copyIndex].source)
  /\ ~CopyFile(copyList[copyIndex].source,
               Join(definition_root_path, copyList[copyIndex].destination)).ok
  /\ pc' = "raised"
  /\ raised' = "FileHandlingError"
  /\ control' = "caller"
  /\ lastCall' = Call("next", <<>>, "FileHandlingError")
  /\ UNCHANGED <<engineVars, raw_name, copyList, copyIndex, genSeen, yielded,
                 written, logged, scaffolderCalls, passes>>

\* lines 66-72: CopyFile raises FileHandlingError, which is logged
CopyFail ==
  /\ CopyPending
  /\ IsFile(copyList[copyIndex].source)
  /\ LET file_source == copyList[copyIndex].source
         full_path == Join(definition_root_path, copyList[copyIndex].destination)
         copied == CopyFile(file_source, full_path)
     IN /\ ~copied.ok
        /\ logged' = Append(logged,
             [source |-> file_source, path |-> full_path,
              error |-> "FileHandlingError"])
  /\ copyIndex' = copyIndex + 1
  /\ UNCHANGED <<engineVars, raw_name, lastCall, control, pc, copyList,
                 genSeen, yielded, written, scaffolderCalls, raised, passes>>

\* line 74: the copy loop is over, self._scaffolder.GenerateFiles() is called
CopyEnd ==
  /\ Running("copy")
  /\ copyIndex > Len(copyList)
  /\ pc' = "generate"
  /\ scaffolderCalls' =
       Append(scaffolderCalls, [call |-> "GenerateFiles", arg |-> <<>>])
  /\ UNCHANGED <<engineVars, raw_name, lastCall, control, copyList, copyIndex,
                 genSeen, yielded, written, logged, raised, passes>>

GeneratePending == Running("generate") /\ Len(genSeen) < MaxGen

\* lines 74-76: the scaffolder produces item, AddContent writes it, its path
\* is yielded
GenerateYield(item) ==
  /\ GeneratePending
  /\ LET full_path == Join(definition_root_path, item.path)
         added == AddContent(full_path, item.content)
     IN /\ added.ok
        /\ written' = Append(written,
             [call |-> "AddContent", source |-> item.content,
              path |-> full_path])
        /\ yielded' = Append(yielded, added.path)
  /\ genSeen' = Append(genSeen, item)
  /\ control' = "caller"
  /\ lastCall' = Call("next", <<>>, "yield")
  /\ UNCHANGED <<engineVars, raw_name, pc, copyList, copyIndex, logged,
                 scaffolderCalls, raised, passes>>

\* a generate loop that catches the error of AddContent and goes on
GenerateWriteErrorCaught(item) ==
  /\ GeneratePending
  /\ ~AddContent(Join(definition_root_path, item.path), item.content).ok
  /\ genSeen' = Append(genSeen, item)
  /\ logged' = Append(logged,
       [source |-> item.content,
        path |-> Join(definition_root_path, item.path),
        error |-> "FileHandlingError"])
  /\ UNCHANGED <<engineVars, raw_name, lastCall, control, pc, copyList,
                 copyIndex, yielded, written, scaffolderCalls, raised, passes>>

\* line 76: AddContent raises; nothing catches it
GenerateWriteError(item) ==
  /\ GeneratePending
  /\ ~AddContent(Join(definition_root_path, item.path), item.content).ok
  /\ genSeen' = Append(genSeen, item)
  /\ pc' = "raised"
  /\ raised' = "FileHandlingError"
  /\ control' = "caller"
  /\ lastCall' = Call("next", <<>>, "FileHandlingError")
  /\ UNCHANGED <<engineVars, raw_name, copyList, copyIndex, yielded, written,
                 logged, scaffolderCalls, passes>>

\* line 74: the scaffolder's generator raises instead of producing a pair
GenerateScaffolderError ==
  /\ GeneratePending
  /\ pc' = "raised"
  /\ raised' = "ScaffolderError"
  /\ control' = "caller"
  /\ lastCall' = Call("next", <<>>, "ScaffolderError")
  /\ UNCHANGED <<engineVars, raw_name, copyList, copyIndex, genSeen, yielded,
                 written, logged, scaffolderCalls, passes>>

\* line 74: the scaffolder's generator is exhausted; StopIteration
GenerateEnd ==
  /\ Running("generate")
  /\ pc' = "done"
  /\ control' = "caller"
  /\ lastCall' = Call("next", <<>>, "StopIteration")
  /\ UNCHANGED <<engineVars, raw_name, copyList, copyIndex, genSeen, yielded,
                 written, logged, scaffolderCalls, raised, passes>>

\* ---------------------------------------------------------- specification
Next ==
  \/ \E raw \in PassNames : SetModuleName(raw)
  \/ \E s \in NewScaffolders \cup {NoScaffolder} : SetScaffolder(s)
  \/ \E root_path \in RootPaths : SetProjectRootPath(root_path)
  \/ \E name \in AttributeNames, value \in AttributeValues,
        value_type \in AttributeTypes :
       StoreScaffolderAttribute(name, value, value_type)
  \/ GenerateFilesCall
  \/ NextCall
  \/ Discard
  \/ RaiseNotReady
  \/ \E files \in CopyLists : StartPass(files)
  \/ CopySkip
  \/ CopyYield
  \/ CopyFail
  \/ CopyEnd
  \/ \E item \in GenItems : GenerateYield(item)
  \/ \E item \in GenItems : GenerateWriteError(item)
  \/ GenerateScaffolderError
  \/ GenerateEnd

Spec == Init /\ [][Next]_vars

\* the same engine, driven with every module name and one copy list
NextNames ==
  \/ \E raw \in ModuleNames : SetModuleName(raw)
  \/ \E s \in NewScaffolders \cup {NoScaffolder} : SetScaffolder(s)
  \/ \E root_path \in RootPaths : SetProjectRootPath(root_path)
  \/ \E name \in AttributeNames, value \in AttributeValues,
        value_type \in AttributeTypes :
       StoreScaffolderAttribute(name, value, value_type)
  \/ GenerateFilesCall
  \/ NextCall
  \/ Discard
  \/ RaiseNotReady
  \/ \E files \in SampleCopyLists : StartPass(files)
  \/ CopySkip
  \/ CopyYield
  \/ CopyFail
  \/ CopyEnd
  \/ \E item \in GenItems : GenerateYield(item)
  \/ \E item \in GenItems : GenerateWriteError(item)
  \/ GenerateScaffolderError
  \/ GenerateEnd

SpecNames == Init /\ [][NextNames]_vars

\* ================================================================ claims
\* helpers of the statements below
PassStarted == pc \notin {"none", "created"}
PathsOf(calls) == [i \in 1..Len(calls) |-> calls[i].path]
DestinationsUnderRoot(pairs) ==
  [i \in 1..Len(pairs) |-> Join(definition_root_path, pairs[i].destination)]
GeneratedUnderRoot(pairs) ==
  [i \in 1..Len(pairs) |-> Join(definition_root_path, pairs[i].path)]
SourceIsRegularFile(pair) == pair.source \in RegularFiles
SourceExists(pair) == pair.source \in RegularFiles \cup Directories
CopySucceeds(pair) ==
  /\ pair.source \in RegularFiles
  /\ \A i \in DOMAIN pair.destination : pair.destination[i] # "ro"
CopyIsRefused(pair) ==
  /\ pair.source \in RegularFiles
  /\ \E i \in DOMAIN pair.destination : pair.destination[i] = "ro"
OnlySpacesAndUnderscores(name) ==
  \A i \in DOMAIN name : name[i] \in {" ", "_"}

\* C1: whenever the root path, the module name or the scaffolder is unset,
\* or the scaffolder reports itself not ready, a started pass has ended with
\* EngineNotConfigured and nothing has happened before it: no SetOutputName,
\* GetFilesToCopy or GenerateFiles call on the scaffolder, no copy, no
\* content written, nothing logged, no path yielded.
C1_NotReadyFailsBeforeSideEffects ==
  (/\ PassStarted
   /\ \/ definition_root_path = <<>>
      \/ module_name = <<>>
      \/ scaffolder = NoScaffolder
      \/ ~scaffolder.ready)
  => /\ pc = "raised"
     /\ raised = "EngineNotConfigured"
     /\ lastCall.result = "EngineNotConfigured"
     /\ \A i \in DOMAIN scaffolderCalls :
          scaffolderCalls[i].call = "RaiseIfNotReady"
     /\ written = <<>>
     /\ logged = <<>>
     /\ yielded = <<>>

\* a pass on an engine whose scaffolder alone is not ready has failed
C1_Witness ==
  /\ pc = "raised"
  /\ raised = "EngineNotConfigured"
  /\ definition_root_path # <<>>
  /\ module_name # <<>>
  /\ scaffolder # NoScaffolder
  /\ ~scaffolder.ready
  /\ Len(scaffolderCalls) = 1

\* C2: a SetProjectRootPath call with a path no registered definition
\* validates ends with NoValidDefinition and leaves root path, definition,
\* module name, prefix and scaffolder as they were.
C2_NoValidDefinitionKeepsState ==
  [][(/\ lastCall'.op = "SetProjectRootPath"
      /\ \A i \in DOMAIN GetDefinitionObjects :
           lastCall'.arg \notin GetDefinitionObjects[i].paths)
     => /\ lastCall'.result = "NoValidDefinition"
        /\ UNCHANGED engineVars]_vars

\* the call failed on an engine that had a root path from an earlier call
C2_Witness ==
  /\ lastCall.op = "SetProjectRootPath"
  /\ lastCall.result = "NoValidDefinition"
  /\ definition_root_path = P2
  /\ definition = "turbinia"

\* C9: after a SetProjectRootPath call with a path that some definition
\* validates, the call has succeeded and the engine holds the path together
\* with the NAME of the first definition, in registry order, validating it.
C9_FirstMatchWins ==
  (/\ lastCall.op = "SetProjectRootPath"
   /\ \E i \in DOMAIN GetDefinitionObjects :
        lastCall.arg \in GetDefinitionObjects[i].paths)
  => /\ lastCall.result = "ok"
     /\ definition_root_path = lastCall.arg
     /\ \E i \in DOMAIN GetDefinitionObjects :
          /\ lastCall.arg \in GetDefinitionObjects[i].paths
          /\ \A j \in 1..(i - 1) :
               lastCall.arg \notin GetDefinitionObjects[j].paths
          /\ definition = GetDefinitionObjects[i].NAME

\* a path two definitions validate was given; the earlier one was adopted
C9_Witness ==
  /\ lastCall.op = "SetProjectRootPath"
  /\ lastCall.arg = P2
  /\ definition = "turbinia"
  /\ definition_root_path = P2

\* C5: StoreScaffolderAttribute without a scaffolder ends with
\* ScaffolderNotConfigured and changes nothing; with a scaffolder, the
\* scaffolder's SetAttribute receives exactly (name, value, type), and the
\* call ends the way SetAttribute ends (KeyError, ValueError or normally).
C5_StoreScaffolderAttribute ==
  [][lastCall'.op = "StoreScaffolderAttribute"
     => IF scaffolder = NoScaffolder
        THEN /\ lastCall'.result = "ScaffolderNotConfigured"
             /\ UNCHANGED engineVars
        ELSE LET name == lastCall'.arg[1]
                 value == lastCall'.arg[2]
                 value_type == lastCall'.arg[3]
                 taken == scaffolder.attributes[name] # NoValue
                 mistyped == value.type # value_type
             IN /\ taken => lastCall'.result = "KeyError"
                /\ ~taken /\ mistyped => lastCall'.result = "ValueError"
                /\ ~taken /\ ~mistyped => lastCall'.result = "ok"
                /\ scaffolder' =
                     IF taken \/ mistyped THEN scaffolder
                     ELSE [scaffolder EXCEPT !.attributes[name] =
                             [value |-> value, type |-> value_type]]
                /\ UNCHANGED <<definition, definition_root_path,
                               file_name_prefix, module_name>>]_vars

\* a second store of the same name reached the caller as KeyError, the first
\* one having been forwarded
C5_Witness ==
  /\ lastCall.op = "StoreScaffolderAttribute"
  /\ lastCall.result = "KeyError"
  /\ scaffolder # NoScaffolder
  /\ scaffolder.attributes["n"] = [value |-> [type |-> "str", text |-> "s"],
                                   type |-> "str"]

\* C3 as stated: on a drained pass in which no copy failed, the yielded
\* paths are one per copy pair whose source exists on disk, in list order,
\* followed by one per generated pair, each under the root path.
C3_AsClaimed ==
  (pc = "done" /\ logged = <<>>)
  => yielded = DestinationsUnderRoot(SelectSeq(copyList, SourceExists))
                 \o GeneratedUnderRoot(genSeen)

\* C3: on a drained pass in which no copy failed, the yielded paths are one
\* per copy pair whose source is a regular file (a pair whose source is
\* missing or is a directory yields nothing), in list order, followed by one
\* per generated pair in the scaffolder's order; each is the root path joined
\* with the relative destination, and each was written.
C3_CopyThenGenerate ==
  (pc = "done" /\ logged = <<>>)
  => /\ yielded = DestinationsUnderRoot(SelectSeq(copyList, SourceIsRegularFile))
                    \o GeneratedUnderRoot(genSeen)
     /\ PathsOf(written) = yielded

\* a drained pass over a missing and an existing source, then generated pairs
C3_Witness ==
  /\ pc = "done"
  /\ logged = <<>>
  /\ Len(copyList) = 2
  /\ copyList[1].source = "tpl/missing"
  /\ copyList[2].source = "tpl/b"
  /\ Len(genSeen) = 2
  /\ Len(yielded) = 3

\* C4: a copy that fails is logged and yields nothing, and the pass goes on:
\* once the copy loop is over, the yielded copy paths are those of the pairs
\* whose copy succeeds, in list order, wherever the failing pairs stood, and
\* the log holds one record per failing pair; a drained pass has yielded the
\* generated pairs after them.
C4_CopyFailureIsSkipped ==
  LET copied == DestinationsUnderRoot(SelectSeq(copyList, CopySucceeds))
      refused == SelectSeq(copyList, CopyIsRefused)
  IN /\ (pc \in {"generate", "done"} \/
         (pc = "raised" /\ raised # "EngineNotConfigured"))
        => /\ Len(yielded) >= Len(copied)
           /\ SubSeq(yielded, 1, Len(copied)) = copied
           /\ Len(logged) = Len(refused)
           /\ \A i \in DOMAIN refused :
                /\ logged[i].source = refused[i].source
                /\ logged[i].path =
                     Join(definition_root_path, refused[i].destination)
     /\ pc = "done" => yielded = copied \o GeneratedUnderRoot(genSeen)

\* the first copy failed; the second copy and a generated pair were yielded
C4_Witness ==
  /\ pc = "done"
  /\ Len(copyList) = 2
  /\ CopyIsRefused(copyList[1])
  /\ CopySucceeds(copyList[2])
  /\ Len(logged) = 1
  /\ Len(genSeen) = 1
  /\ Len(yielded) = 2

\* C7: a generated pair that cannot be written, or an error of the
\* scaffolder's generator, ends the pass with that error at the caller: the
\* failing pair is the last one the pass took, the pairs before it and the
\* copies stay written and yielded, and afterwards the pass writes and
\* yields nothing more.
C7_GenerateErrorPropagates ==
  [][/\ \A i \in DOMAIN genSeen' :
          (\E k \in DOMAIN genSeen'[i].path : genSeen'[i].path[k] = "ro")
          => /\ i = Len(genSeen')
             /\ pc' = "raised"
             /\ raised' = "FileHandlingError"
     /\ (pc' = "raised" /\ raised' \in {"FileHandlingError", "ScaffolderError"})
        => LET before == IF raised' = "FileHandlingError"
                         THEN SubSeq(genSeen', 1, Len(genSeen') - 1)
                         ELSE genSeen'
           IN /\ control' = "caller"
              /\ lastCall'.result = raised'
              /\ yielded' = DestinationsUnderRoot(SelectSeq(copyList', CopySucceeds))
                              \o GeneratedUnderRoot(before)
              /\ PathsOf(written') = yielded'
     /\ pc = "raised" => \/ UNCHANGED <<pc, yielded, written, genSeen>>
                         \/ pc' = "none"]_vars

\* the second generated pair could not be written; a copy and the first
\* generated pair stay written
C7_Witness ==
  /\ pc = "raised"
  /\ raised = "FileHandlingError"
  /\ Len(genSeen) = 2
  /\ Len(written) = 2
  /\ written[1].call = "CopyFile"
  /\ written[2].call = "AddContent"

\* C8: at every point of a pass the files the pass has written are exactly
\* the paths it has yielded, and the pass writes only while the caller waits
\* in next(); a GenerateFiles call starts a pass with nothing written or
\* yielded, and every pass that got anywhere has made the readiness check.
C8_WritesFollowConsumption ==
  [][/\ PathsOf(written') = yielded'
     /\ written' # written => (control = "generator" \/ pc' = "none")
     /\ lastCall'.op = "GenerateFiles"
        => /\ pc' = "created"
           /\ written' = <<>> /\ yielded' = <<>> /\ scaffolderCalls' = <<>>
     /\ pc' \in {"copy", "generate", "done"}
        => scaffolderCalls'[1].call = "RaiseIfNotReady"]_vars

\* the caller of a second pass holds one path; the next pair is not written
C8_Witness ==
  /\ passes = 2
  /\ control = "caller"
  /\ pc = "copy"
  /\ Len(yielded) = 1
  /\ Len(written) = 1
  /\ copyIndex = 2
  /\ Len(copyList) = 2
  /\ CopySucceeds(copyList[2])

C10_BlankNameIsNotSet ==
  /\ lastCall.op = "SetModuleName" => lastCall.result = "ok"
  /\ raw_name # NoName
     => /\ (module_name = <<>>) <=> OnlySpacesAndUnderscores(raw_name)
        /\ (/\ PassStarted
            /\ definition_root_path # <<>>
            /\ scaffolder # NoScaffolder
            /\ scaffolder.ready)
           => IF OnlySpacesAndUnderscores(raw_name)
              THEN /\ pc = "raised"
                   /\ raised = "EngineNotConfigured"
                   /\ written = <<>> /\ yielded = <<>>
              ELSE raised # "EngineNotConfigured"

\* the name "_" left the prefix "_" and no module name; the pass failed
C10_Witness ==
  /\ raw_name = <<"_">>
  /\ file_name_prefix = <<"_">>
  /\ module_name = <<>>
  /\ definition_root_path # <<>>
  /\ scaffolder # NoScaffolder
  /\ scaffolder.ready
  /\ pc = "raised"
  /\ raised = "EngineNotConfigured"

====
